---- MODULE Spec2Model ----
(***************************************************************************)
(* A model of go-cheche: the customer registry and distance store that     *)
(* utils.load_customers maintains (in memory and in the customers file),   *)
(* the runner's data checks, and the routing step of router.py.            *)
(*                                                                         *)
(* Strings whose characters matter (customer ids, the keys of the          *)
(* "distances" mapping of the customers file) are sequences of             *)
(* one-character strings, so that formatting, parsing and lexicographic    *)
(* sorting are computed and not assumed.                                   *)
(***************************************************************************)
EXTENDS Integers, Sequences, FiniteSets, TLC

VARIABLES
    pc,                 \* position of the run inside load_customers
    customers_filename, \* "" (work in memory) or the name of the customers file
    file,               \* the customers file on disk
    known_customers,    \* load_customers: list of known Customer objects
    distances_dict,     \* load_customers: (id, id) -> duration
    cust_dict,          \* load_customers: id -> Customer, of the rows read
    visits,             \* load_customers: list of the ids to visit
    next_cust_id,       \* load_customers: the next id to hand out
    rows_read,          \* number of rows of the visits file consumed so far
    cust,               \* the Customer built for the row being handled (a list of 0 or 1)
    new_dists,          \* get_dists_to_from_new_cust: the dictionary being built
    queries,            \* provider queries issued for the row being handled
    error,              \* what load_customers raised or returned instead of data
    rpc,                \* position of the run inside runner.main / router
    get_distances,      \* runner: the --get-distances flag
    data,               \* router: create_model_data's result (a list of 0 or 1)
    solution,           \* router: the assignment SolveWithParameters returned (0 or 1)
    routes,             \* router: get_routes' result
    rerror,             \* what the runner or the router raised
    capacity,           \* router: the capacity of the model's duration dimension
    engine_invoked      \* router: whether the routing model was built and solved

load_vars == <<pc, customers_filename, file, known_customers, distances_dict,
               cust_dict, visits, next_cust_id, rows_read, cust, new_dists,
               queries, error>>
route_vars == <<rpc, get_distances, data, solution, routes, rerror, capacity,
                engine_invoked>>
vars == <<load_vars, route_vars>>

----------------------------------------------------------------------------
(* Bounds of the model *)

\* rows of the visits file read by one run of load_customers
MaxRows == 2
\* customers in the customers file when the run starts
MaxKnown == 2
\* stops besides the depot handed to the routing engine
MaxStops == 2
\* keys of a distances dictionary written and read back on its own
MaxPairs == 2

(* Program constants *)

\* width of the "06d" format of a customer id
ID_WIDTH == 6
\* capacity handed to routing.AddDimension
MAX_ROUTE_DURATION == 21600
\* durations (seconds) the provider may report between two different places
Durations == {7200, 10800}

----------------------------------------------------------------------------
(* Strings of digits: f"{n:06d}", int(s), and the order sorted() uses *)

DigitChars == <<"0", "1", "2", "3", "4", "5", "6", "7", "8", "9">>

DigitValue(c) == (CHOOSE i \in 1..10 : DigitChars[i] = c) - 1

RECURSIVE Decimal(_)
\* str(n) for n >= 0
Decimal(n) ==
    IF n < 10 THEN <<DigitChars[n + 1]>>
    ELSE Append(Decimal(n \div 10), DigitChars[(n % 10) + 1])

RECURSIVE ZeroPad(_, _)
\* pads on the left with "0" up to width w; a longer string is left as it is
ZeroPad(s, w) == IF Len(s) >= w THEN s ELSE ZeroPad(<<"0">> \o s, w)

\* f"{n:06d}"
FormatId(n) == ZeroPad(Decimal(n), ID_WIDTH)

RECURSIVE ParseInt(_)
\* int(s) for a string of digits
ParseInt(s) ==
    IF Len(s) = 0 THEN 0
    ELSE 10 * ParseInt(SubSeq(s, 1, Len(s) - 1)) + DigitValue(s[Len(s)])

\* utils.DEPOT_CUST_ID = "000000"
DEPOT_CUST_ID == <<"0", "0", "0", "0", "0", "0">>

RECURSIVE StrLess(_, _)
\* a < b for Python strings of digits (lexicographic, a proper prefix first)
StrLess(a, b) ==
    IF Len(b) = 0 THEN FALSE
    ELSE IF Len(a) = 0 THEN TRUE
    ELSE IF a[1] # b[1] THEN DigitValue(a[1]) < DigitValue(b[1])
    ELSE StrLess(Tail(a), Tail(b))

RECURSIVE Insert(_, _)
\* x put into the sorted list s, after the elements equal to it
Insert(x, s) ==
    IF Len(s) = 0 THEN <<x>>
    ELSE IF StrLess(x, s[1]) THEN <<x>> \o s
    ELSE <<s[1]>> \o Insert(x, Tail(s))

RECURSIVE Sorted(_)
\* sorted(s) for a list of strings
Sorted(s) ==
    IF Len(s) = 0 THEN <<>>
    ELSE Insert(s[Len(s)], Sorted(SubSeq(s, 1, Len(s) - 1)))

Range(s) == {s[i] : i \in 1..Len(s)}

----------------------------------------------------------------------------
(* The keys of the "distances" mapping of the customers file *)

\* str(s) for a Python string s without quotes or backslashes
Repr(s) == <<"'">> \o s \o <<"'">>

\* str((a, b)) for a tuple of two strings
TupleStr(k) == <<"(">> \o Repr(k[1]) \o <<",", " ">> \o Repr(k[2]) \o <<")">>

QuotePositions(s) == {i \in 1..Len(s) : s[i] = "'"}

\* whether s is the text of a tuple of two quoted strings, as TupleStr writes it
IsPairText(s) ==
    /\ Len(s) >= 10
    /\ Cardinality(QuotePositions(s)) = 4
    /\ s[1] = "(" /\ s[2] = "'"
    /\ s[Len(s)] = ")" /\ s[Len(s) - 1] = "'"
    /\ LET q == CHOOSE i \in QuotePositions(s) : i > 2 /\ \A j \in QuotePositions(s) : j > 2 => i <= j
       IN  /\ q + 3 < Len(s)
           /\ s[q + 1] = "," /\ s[q + 2] = " " /\ s[q + 3] = "'"

\* a variant of PairOfText that gives the two strings in the other order
PairOfText_Swapped(s) ==
    LET q == CHOOSE i \in QuotePositions(s) : i > 2 /\ \A j \in QuotePositions(s) : j > 2 => i <= j
    IN  <<SubSeq(s, q + 4, Len(s) - 2), SubSeq(s, 3, q - 1)>>

\* ast.literal_eval on the text of a pair
PairOfText(s) ==
    LET q == CHOOSE i \in QuotePositions(s) : i > 2 /\ \A j \in QuotePositions(s) : j > 2 => i <= j
    IN  <<SubSeq(s, 3, q - 1), SubSeq(s, q + 4, Len(s) - 2)>>

\* the position of the first quote after position i, or 0
NextQuote(s, i) ==
    LET q == {j \in QuotePositions(s) : j > i}
    IN  IF q = {} THEN 0 ELSE CHOOSE j \in q : \A k \in q : j <= k

RECURSIVE DigitsEnd(_, _)
\* the last position of the run of digits that starts at position i
DigitsEnd(s, i) ==
    IF i < Len(s) /\ s[i + 1] \in Range(DigitChars) THEN DigitsEnd(s, i + 1) ELSE i

\* whether a run of digits is a Python integer literal: no leading zero,
\* unless every digit is zero
IsIntLiteral(t) == t[1] # "0" \/ \A i \in 1..Len(t) : t[i] = "0"

NoLiteral == [ok |-> FALSE, kind |-> "", strs |-> FALSE, value |-> <<>>]

RECURSIVE ParseItems(_, _, _, _, _)
\* reads from position i a list of quoted strings and integers separated by
\* commas, spaces allowed between them and one comma allowed at the end:
\* the items read, whether all are strings, and the number of commas
ParseItems(s, i, items, strs, commas) ==
    LET want_item == commas = Len(items)
    IN  IF i > Len(s) THEN [ok |-> TRUE, items |-> items, strs |-> strs, commas |-> commas]
        ELSE IF s[i] = " " THEN ParseItems(s, i + 1, items, strs, commas)
        ELSE IF ~want_item
        THEN IF s[i] = "," THEN ParseItems(s, i + 1, items, strs, commas + 1)
             ELSE [ok |-> FALSE, items |-> items, strs |-> strs, commas |-> commas]
        ELSE IF s[i] = "'" /\ NextQuote(s, i) # 0
        THEN ParseItems(s, NextQuote(s, i) + 1,
                        Append(items, SubSeq(s, i + 1, NextQuote(s, i) - 1)),
                        strs, commas)
        ELSE IF s[i] \in Range(DigitChars)
                /\ IsIntLiteral(SubSeq(s, i, DigitsEnd(s, i)))
        THEN ParseItems(s, DigitsEnd(s, i) + 1,
                        Append(items, SubSeq(s, i, DigitsEnd(s, i))),
                        FALSE, commas)
        ELSE [ok |-> FALSE, items |-> items, strs |-> strs, commas |-> commas]

\* ast.literal_eval on a key of the mapping, for texts made of quoted strings
\* (without quotes or backslashes inside), integers, commas, spaces and one
\* pair of parentheses around them: the value, or ok = FALSE for the
\* SyntaxError or ValueError raised. A tuple is the list of its items; a
\* single string or integer is the list of that one item, of kind "scalar".
literal_eval(s) ==
    IF IsPairText(s)
    THEN [ok |-> TRUE, kind |-> "tuple", strs |-> TRUE, value |-> PairOfText(s)]
    ELSE LET parens == Len(s) >= 2 /\ s[1] = "(" /\ s[Len(s)] = ")"
             inner == IF parens THEN SubSeq(s, 2, Len(s) - 1) ELSE s
             p == ParseItems(inner, 1, <<>>, TRUE, 0)
         IN  IF ~p.ok THEN NoLiteral
             ELSE IF Len(p.items) = 0 /\ ~parens THEN NoLiteral
             ELSE IF Len(p.items) = 1 /\ p.commas = 0
             THEN [ok |-> TRUE, kind |-> "scalar", strs |-> p.strs, value |-> p.items]
             ELSE [ok |-> TRUE, kind |-> "tuple", strs |-> p.strs, value |-> p.items]

\* utils.dist_dict_to_json
dist_dict_to_json(dist_dict) ==
    [s \in {TupleStr(k) : k \in DOMAIN dist_dict} |->
        dist_dict[CHOOSE k \in DOMAIN dist_dict : TupleStr(k) = s]]

\* utils.dist_dict_from_json when ast.literal_eval raises for one of the keys
dist_dict_from_json_raises(json_dists) ==
    \E s \in DOMAIN json_dists : ~literal_eval(s).ok

\* utils.dist_dict_from_json when no key makes ast.literal_eval raise
dist_dict_from_json(json_dists) ==
    LET key == [s \in DOMAIN json_dists |-> literal_eval(s).value]
    IN  [k \in {key[s] : s \in DOMAIN json_dists} |->
            json_dists[CHOOSE s \in DOMAIN json_dists : key[s] = k]]

\* d1.update(d2)
Update(d1, d2) ==
    [k \in DOMAIN d1 \cup DOMAIN d2 |-> IF k \in DOMAIN d2 THEN d2[k] ELSE d1[k]]

EmptyDict == [k \in {} |-> 0]

----------------------------------------------------------------------------
(* Geocoding (utils.get_address) *)

\* what geocoder.osm answers for an address text: nothing, or a formatted
\* address with its latitude and longitude
OsmAnswers ==
    [t \in {"1 Elm St", "2 Oak St"} |->
        IF t = "1 Elm St"
        THEN [address |-> "1 Elm St, Troy, NY 12180", lat |-> 42, lng |-> 73]
        ELSE [address |-> "2 Oak St, Troy, NY 12180", lat |-> 43, lng |-> 74]]

\* what usaddress.tag and the re-assembly of lines 60-90 make of a raw address:
\* a cleaner text, or nothing when it is no street address
Cleaned ==
    [t \in {" 1  Elm St "} |-> "1 Elm St"]

\* the address column of a row of the visits file
RawAddresses == {"1 Elm St", " 1  Elm St ", "2 Oak St", "nowhere"}

\* the name column of a row of the visits file
Names == {"ann", "bob"}

NoAddress == [ok |-> FALSE, address |-> "", lat |-> 0, lon |-> 0]

\* utils.get_address: the geocoded address, or a ValueError (ok = FALSE)
get_address(address) ==
    IF address \in DOMAIN OsmAnswers
    THEN [ok |-> TRUE, address |-> OsmAnswers[address].address,
          lat |-> OsmAnswers[address].lat, lon |-> OsmAnswers[address].lng]
    ELSE IF address \notin DOMAIN Cleaned THEN NoAddress
    ELSE IF Cleaned[address] \in DOMAIN OsmAnswers
    THEN [ok |-> TRUE, address |-> OsmAnswers[Cleaned[address]].address,
          lat |-> OsmAnswers[Cleaned[address]].lat,
          lon |-> OsmAnswers[Cleaned[address]].lng]
    ELSE NoAddress

----------------------------------------------------------------------------
(* Customers and the customers file *)

\* core.Customer(cust_id, name, address, latitude, longitude, visit)
Customer(cust_id, name, address, latitude, longitude, visit) ==
    [cust_id |-> cust_id, name |-> name, address |-> address,
     lat |-> latitude, lon |-> longitude, visit |-> visit]

\* the record add_to_known_customer_data stores for a customer
FileRecord(c) ==
    [cust_id |-> c.cust_id, name |-> c.name, address |-> c.address,
     latitude |-> c.lat, longitude |-> c.lon]

\* Customer(**record): the visit flag takes its default, False
CustomerOfRecord(r) ==
    Customer(r.cust_id, r.name, r.address, r.latitude, r.longitude, FALSE)

NoFile == [state |-> "absent", customers |-> <<>>, distances |-> EmptyDict]

\* utils.file_exists
file_exists(f) == f.state # "absent"

\* utils.write_json completing: the file holds exactly the object
write_json(obj_to_write) ==
    [state |-> "written", customers |-> obj_to_write.customers,
     distances |-> obj_to_write.distances]

\* utils.write_json interrupted: open(filename, 'w') has emptied the file and
\* json.dump has written none or only a part of the text
write_json_interrupted(obj_to_write) ==
    { [state |-> "truncated", customers |-> <<>>, distances |-> EmptyDict],
      [state |-> "partial", customers |-> obj_to_write.customers,
       distances |-> EmptyDict] }

\* utils.load_known_customer_data when dist_dict_from_json raises
load_known_customer_data_raises(filename, f) ==
    filename # "" /\ file_exists(f) /\ dist_dict_from_json_raises(f.distances)

\* utils.load_known_customer_data when it returns: <<customers, distances>>
load_known_customer_data(filename, f) ==
    IF filename = "" \/ ~file_exists(f) THEN <<(<<>>), EmptyDict>>
    ELSE << [i \in 1..Len(f.customers) |-> CustomerOfRecord(f.customers[i])],
            dist_dict_from_json(f.distances) >>

\* a variant of get_known_customer that finds nobody
get_known_customer_nobody(name, address, customers) == 0

\* utils.get_known_customer: the index of the first customer with this name
\* and address, or 0
get_known_customer(name, address, customers) ==
    LET hits == {i \in 1..Len(customers) :
                    customers[i].name = name /\ customers[i].address = address}
    IN  IF hits = {} THEN 0 ELSE CHOOSE i \in hits : \A j \in hits : i <= j

\* utils.get_known_customer_by_id, same convention
get_known_customer_by_id(id, customers) ==
    LET hits == {i \in 1..Len(customers) : customers[i].cust_id = id}
    IN  IF hits = {} THEN 0 ELSE CHOOSE i \in hits : \A j \in hits : i <= j

\* a variant of MergedFileContent that writes the new distances alone
MergedFileContent_OnlyNew(customer, new_distances, f) ==
    [customers |-> Append(f.customers, FileRecord(customer)),
     distances |-> dist_dict_to_json(new_distances)]

\* the object add_to_known_customer_data writes back (lines 277-295), given
\* the file it has just read
MergedFileContent(customer, new_distances, f) ==
    [customers |-> Append(f.customers, FileRecord(customer)),
     distances |-> dist_dict_to_json(
                       Update(dist_dict_from_json(f.distances), new_distances))]

EmptyFileContent == [customers |-> <<>>, distances |-> EmptyDict]

\* a variant of add_to_known_customer_data that never touches the file
add_to_known_customer_data_in_memory(customer, new_distances, filename, f) == f

\* utils.add_to_known_customer_data running to its end: the file afterwards
add_to_known_customer_data(customer, new_distances, filename, f) ==
    IF filename = "" THEN f
    ELSE LET g == IF file_exists(f) THEN f ELSE write_json(EmptyFileContent)
         IN  write_json(MergedFileContent(customer, new_distances, g))

\* the next id of lines 187-190
FirstNewId(customers) ==
    IF Len(customers) = 0 THEN 0
    ELSE LET ids == {ParseInt(customers[i].cust_id) : i \in 1..Len(customers)}
         IN  (CHOOSE m \in ids : \A n \in ids : n <= m) + 1

----------------------------------------------------------------------------
(* The distance provider and utils.get_dists_to_from_new_cust *)

\* cust_coords_w_id of lines 357-360: the ids of the known customers, then the new one
CoordIds(customer, customers) ==
    [i \in 1..(Len(customers) + 1) |->
        IF i <= Len(customers) THEN customers[i].cust_id ELSE customer.cust_id]

\* a row (or column) of durations the provider may answer for n locations, the
\* last of which is the new customer: 0 from a place to itself
ProviderAnswers(n) ==
    {r \in [1..n -> Durations \cup {0}] :
        /\ r[n] = 0
        /\ \A i \in 1..(n - 1) : r[i] = r[1] /\ r[i] # 0}

\* the last index in lo..hi at which the id stands (a dict comprehension keeps
\* the value computed last for a key)
LastIndex(ids, lo, hi, id) ==
    CHOOSE i \in lo..hi : ids[i] = id /\ \A j \in lo..hi : ids[j] = id => j <= i

\* a variant of SelfArc that gives no arc at all
SelfArc_Empty(customer) == EmptyDict

\* lines 349-350: no known customer, so only the self-directed arc
SelfArc(customer) ==
    [k \in {<<customer.cust_id, customer.cust_id>>} |-> 0]

\* a variant of DistsFrom that stops before the new customer (range(n - 1))
DistsFrom_NoSelf(ids, response) ==
    [k \in {<<ids[Len(ids)], ids[i]>> : i \in 1..(Len(ids) - 1)} |->
        response[LastIndex(ids, 1, Len(ids) - 1, k[2])]]

\* lines 377-380: distances FROM the new customer, itself included
DistsFrom(ids, response) ==
    [k \in {<<ids[Len(ids)], ids[i]>> : i \in 1..Len(ids)} |->
        response[LastIndex(ids, 1, Len(ids), k[2])]]

\* a variant of DistsTo that writes the key with the new customer first
DistsTo_Swapped(ids, response) ==
    [k \in {<<ids[Len(ids)], ids[i]>> : i \in 1..(Len(ids) - 1)} |->
        response[LastIndex(ids, 1, Len(ids) - 1, k[2])]]

\* lines 387-390: distances TO the new customer, itself excluded
DistsTo(ids, response) ==
    [k \in {<<ids[i], ids[Len(ids)]>> : i \in 1..(Len(ids) - 1)} |->
        response[LastIndex(ids, 1, Len(ids) - 1, k[1])]]

----------------------------------------------------------------------------
(* utils.get_distance_matrix *)

\* the pairs of positions of visits whose pair of ids the dictionary lacks
MissingAt(visit_ids, distances) ==
    {p \in (1..Len(visit_ids)) \X (1..Len(visit_ids)) :
        <<visit_ids[p[1]], visit_ids[p[2]]>> \notin DOMAIN distances}

\* the first of them in the order the nested comprehension reads them
FirstMissingAt(visit_ids, distances) ==
    LET m == MissingAt(visit_ids, distances)
    IN  CHOOSE p \in m : \A q \in m : p[1] < q[1] \/ (p[1] = q[1] /\ p[2] <= q[2])

\* a variant of get_distance_matrix that reads a missing pair as 0
get_distance_matrix_default(visit_ids, distances) ==
    [ok |-> TRUE,
     matrix |-> [p \in (1..Len(visit_ids)) \X (1..Len(visit_ids)) |->
                    IF <<visit_ids[p[1]], visit_ids[p[2]]>> \in DOMAIN distances
                    THEN distances[<<visit_ids[p[1]], visit_ids[p[2]]>>] ELSE 0],
     key |-> <<>>]

\* utils.get_distance_matrix: the matrix, or the KeyError of the first lookup
\* that fails, which carries the pair looked up
get_distance_matrix(visit_ids, distances) ==
    IF MissingAt(visit_ids, distances) = {}
    THEN [ok |-> TRUE,
          matrix |-> [p \in (1..Len(visit_ids)) \X (1..Len(visit_ids)) |->
                         distances[<<visit_ids[p[1]], visit_ids[p[2]]>>]],
          key |-> <<>>]
    ELSE LET p == FirstMissingAt(visit_ids, distances)
         IN  [ok |-> FALSE, matrix |-> EmptyDict,
              key |-> <<visit_ids[p[1]], visit_ids[p[2]]>>]

----------------------------------------------------------------------------
(* The customers file a run may find *)

\* the people a customers file may list, in the order they were added
People ==
    << [name |-> "ann", address |-> "1 Elm St, Troy, NY 12180", lat |-> 42, lon |-> 73],
       [name |-> "bob", address |-> "2 Oak St, Troy, NY 12180", lat |-> 43, lon |-> 74],
       [name |-> "ann", address |-> "2 Oak St, Troy, NY 12180", lat |-> 43, lon |-> 74],
       [name |-> "bob", address |-> "1 Elm St, Troy, NY 12180", lat |-> 42, lon |-> 73] >>

\* the numbers of the ids a customers file may hold
LoadedIdNumbers == {0, 1, 999999}

\* the strictly increasing lists of k id numbers
IdLists(k) ==
    {l \in [1..k -> LoadedIdNumbers] : \A i \in 1..k : \A j \in 1..k : i < j => l[i] < l[j]}

\* ordered pairs of different elements
OffDiagonal(S) == {p \in S \X S : p[1] # p[2]}

\* the complete distance dictionaries over a set of ids
CompleteDicts(ids) ==
    {[p \in ids \X ids |-> IF p[1] = p[2] THEN 0 ELSE d[p]] : d \in [OffDiagonal(ids) -> Durations]}

\* a customers file as add_to_known_customer_data leaves it: k customers with
\* distinct ids and all the ordered pairs among them
FilesOf(k) ==
    {[state |-> "written",
      customers |-> [i \in 1..k |->
          [cust_id |-> FormatId(l[i]), name |-> People[i].name,
           address |-> People[i].address,
           latitude |-> People[i].lat, longitude |-> People[i].lon]],
      distances |-> dist_dict_to_json(d)] :
        <<l, d>> \in UNION {{<<l1, d1>> : d1 \in CompleteDicts({FormatId(l1[i]) : i \in 1..k})} :
                            l1 \in IdLists(k)}}

KnownCounts == {k \in 0..MaxKnown : k <= Len(People) /\ k <= Cardinality(LoadedIdNumbers)}

NoError == [kind |-> "", key |-> <<>>]

RouteIdle ==
    /\ rpc = "idle"
    /\ get_distances = FALSE
    /\ data = <<>>
    /\ solution = <<>>
    /\ routes = <<>>
    /\ rerror = NoError
    /\ capacity = 0
    /\ engine_invoked = FALSE

Init ==
    /\ pc = "start"
    /\ customers_filename \in {"", "customers.json"}
    /\ \/ file = NoFile
       \/ /\ customers_filename # ""
          /\ file \in UNION {FilesOf(k) : k \in KnownCounts}
    /\ known_customers = <<>>
    /\ distances_dict = EmptyDict
    /\ cust_dict = EmptyDict
    /\ visits = <<>>
    /\ next_cust_id = 0
    /\ rows_read = 0
    /\ cust = <<>>
    /\ new_dists = EmptyDict
    /\ queries = 0
    /\ error = ""
    /\ RouteIdle

----------------------------------------------------------------------------
(* utils.load_customers, step by step *)

\* lines 177-190: read the customers file, note the next id; the error of
\* ast.literal_eval on a key of the file's distances is not caught
load_customers_begin ==
    /\ pc = "start"
    /\ IF load_known_customer_data_raises(customers_filename, file)
       THEN /\ pc' = "raised"
            /\ error' = "SyntaxError"
            /\ UNCHANGED <<known_customers, distances_dict, next_cust_id>>
       ELSE /\ LET loaded == load_known_customer_data(customers_filename, file)
               IN  /\ known_customers' = loaded[1]
                   /\ distances_dict' = loaded[2]
                   /\ next_cust_id' = FirstNewId(loaded[1])
            /\ pc' = "rows"
            /\ UNCHANGED error
    /\ UNCHANGED <<customers_filename, file, cust_dict, visits, rows_read, cust,
                   new_dists, queries, route_vars>>

\* lines 195-199: a row whose address cannot be geocoded; get_address raises
load_customers_row_no_address ==
    /\ pc = "rows"
    /\ rows_read < MaxRows
    /\ \E raw \in RawAddresses :
          /\ ~get_address(raw).ok
          /\ pc' = "raised"
          /\ error' = "ValueError"
    /\ rows_read' = rows_read + 1
    /\ UNCHANGED <<customers_filename, file, known_customers, distances_dict,
                   cust_dict, visits, next_cust_id, cust, new_dists, queries,
                   route_vars>>

\* lines 195-204, 231-236: a row that names a known customer
load_customers_row_known ==
    /\ pc = "rows"
    /\ rows_read < MaxRows
    /\ \E name \in Names, raw \in RawAddresses :
          LET a == get_address(raw)
              i == get_known_customer(name, a.address, known_customers)
          IN  /\ a.ok
              /\ i # 0
              /\ known_customers' = [known_customers EXCEPT ![i].visit = TRUE]
              /\ cust_dict' = Update(cust_dict,
                    [k \in {known_customers[i].cust_id} |-> known_customers'[i]])
              /\ visits' = Append(visits, known_customers[i].cust_id)
    /\ rows_read' = rows_read + 1
    /\ queries' = 0
    /\ UNCHANGED <<pc, customers_filename, file, distances_dict, next_cust_id,
                   cust, new_dists, error, route_vars>>

\* lines 195-216 and 349-350: a row that names a new customer, who gets an id;
\* with no known customer the distances are the self-directed arc alone
load_customers_row_new ==
    /\ pc = "rows"
    /\ rows_read < MaxRows
    /\ \E name \in Names, raw \in RawAddresses :
          LET a == get_address(raw)
              c == Customer(FormatId(next_cust_id), name, a.address, a.lat, a.lon, TRUE)
          IN  /\ a.ok
              /\ get_known_customer(name, a.address, known_customers) = 0
              /\ cust' = <<c>>
              /\ IF Len(known_customers) = 0
                 THEN new_dists' = SelfArc(c) /\ pc' = "persist"
                 ELSE new_dists' = EmptyDict /\ pc' = "query_from"
    /\ next_cust_id' = next_cust_id + 1
    /\ rows_read' = rows_read + 1
    /\ queries' = 0
    /\ UNCHANGED <<customers_filename, file, known_customers, distances_dict,
                   cust_dict, visits, error, route_vars>>

\* lines 352-380: the query with the new customer as the only source
query_from_new_cust ==
    /\ pc = "query_from"
    /\ LET ids == CoordIds(cust[1], known_customers)
       IN  \E response \in ProviderAnswers(Len(ids)) :
              new_dists' = DistsFrom(ids, response)
    /\ queries' = queries + 1
    /\ pc' = "query_to"
    /\ UNCHANGED <<customers_filename, file, known_customers, distances_dict,
                   cust_dict, visits, next_cust_id, rows_read, cust, error,
                   route_vars>>

\* lines 382-392: the query with the new customer as the only destination
query_to_new_cust ==
    /\ pc = "query_to"
    /\ LET ids == CoordIds(cust[1], known_customers)
       IN  \E response \in ProviderAnswers(Len(ids)) :
              new_dists' = Update(new_dists, DistsTo(ids, response))
    /\ queries' = queries + 1
    /\ pc' = "persist"
    /\ UNCHANGED <<customers_filename, file, known_customers, distances_dict,
                   cust_dict, visits, next_cust_id, rows_read, cust, error,
                   route_vars>>

\* lines 375, 385: osr_client.distance_matrix raises; nothing catches it
query_fails ==
    /\ pc \in {"query_from", "query_to"}
    /\ queries' = queries + 1
    /\ pc' = "raised"
    /\ error' = "ApiError"
    /\ UNCHANGED <<customers_filename, file, known_customers, distances_dict,
                   cust_dict, visits, next_cust_id, rows_read, cust, new_dists,
                   route_vars>>

\* lines 223-236: the new customer goes to the file, to the known customers,
\* to the distances and to the visits
load_customers_add_new ==
    /\ pc = "persist"
    /\ file' = add_to_known_customer_data(cust[1], new_dists, customers_filename, file)
    /\ known_customers' = Append(known_customers, cust[1])
    /\ distances_dict' = Update(distances_dict, new_dists)
    /\ cust_dict' = Update(cust_dict, [k \in {cust[1].cust_id} |-> cust[1]])
    /\ visits' = Append(visits, cust[1].cust_id)
    /\ pc' = "rows"
    /\ UNCHANGED <<customers_filename, next_cust_id, rows_read, cust, new_dists,
                   queries, error, route_vars>>

\* lines 275, 296: the process dies inside write_json
write_json_crash ==
    /\ pc = "persist"
    /\ customers_filename # ""
    /\ \/ /\ ~file_exists(file)
          /\ file' \in write_json_interrupted(EmptyFileContent)
       \/ LET g == IF file_exists(file) THEN file ELSE write_json(EmptyFileContent)
          IN  file' \in write_json_interrupted(MergedFileContent(cust[1], new_dists, g))
    /\ pc' = "crashed"
    /\ UNCHANGED <<customers_filename, known_customers, distances_dict, cust_dict,
                   visits, next_cust_id, rows_read, cust, new_dists, queries,
                   error, route_vars>>

\* a variant of InsertDepot that appends the depot
InsertDepot_AtEnd(sorted) ==
    IF DEPOT_CUST_ID \in Range(sorted) THEN sorted ELSE Append(sorted, DEPOT_CUST_ID)

\* lines 242-243: the depot goes to the front unless the list has it
InsertDepot(sorted) ==
    IF DEPOT_CUST_ID \in Range(sorted) THEN sorted ELSE <<DEPOT_CUST_ID>> \o sorted

\* lines 238-259: the visits file is exhausted
load_customers_finish ==
    /\ pc = "rows"
    /\ LET sorted == Sorted(visits)
           with_depot == InsertDepot(sorted)
           i == get_known_customer_by_id(DEPOT_CUST_ID, known_customers)
       IN  /\ visits' = with_depot
           /\ IF DEPOT_CUST_ID \in DOMAIN cust_dict
              THEN cust_dict' = cust_dict
              ELSE IF i = 0 THEN cust_dict' = cust_dict
              ELSE cust_dict' = Update(cust_dict,
                       [k \in {DEPOT_CUST_ID} |-> known_customers[i]])
           /\ IF DEPOT_CUST_ID \notin DOMAIN cust_dict /\ i = 0
              THEN pc' = "raised" /\ error' = "ValueError"
              ELSE IF Len(with_depot) # Cardinality(Range(with_depot))
              THEN pc' = "returned" /\ error' = "ValueError object"
              ELSE pc' = "returned" /\ error' = ""
    /\ UNCHANGED <<customers_filename, file, known_customers, distances_dict,
                   next_cust_id, rows_read, cust, new_dists, queries, route_vars>>

Next ==
    \/ load_customers_begin
    \/ load_customers_row_no_address
    \/ load_customers_row_known
    \/ load_customers_row_new
    \/ query_from_new_cust
    \/ query_to_new_cust
    \/ query_fails
    \/ load_customers_add_new
    \/ write_json_crash
    \/ load_customers_finish

Spec == Init /\ [][Next]_vars

----------------------------------------------------------------------------
(* Properties of load_customers *)

\* load_customers has returned its three results
ReturnedData == pc = "returned" /\ error = ""

HasDuplicate(s) == Len(s) # Cardinality(Range(s))

KnownIds == {known_customers[i].cust_id : i \in 1..Len(known_customers)}

\* every pair of d1 is a pair of d2 with the same duration
Preserved(d1, d2) ==
    LET before == d1
        after == d2
    IN  \A k \in DOMAIN before : k \in DOMAIN after /\ after[k] = before[k]

\* C3: when load_customers returns, the distances hold every ordered pair of
\* the ids to visit (the same id twice included), so get_distance_matrix
\* finds every key it looks up.
C3_StoreComplete ==
    ReturnedData =>
        /\ \A a \in Range(visits) : \A b \in Range(visits) :
              <<a, b>> \in DOMAIN distances_dict
        /\ get_distance_matrix(visits, distances_dict).ok

\* a run that met two new customers after loading known ones has returned
C3_Witness ==
    /\ ReturnedData
    /\ Len(visits) >= 3
    /\ Len(known_customers) >= 3
    /\ queries = 2

\* C4: a visits file that names the same customer twice makes load_customers
\* raise; it never returns with a duplicated id in visits.
C4_DuplicateRaises ==
    (pc \in {"returned", "raised"} /\ HasDuplicate(visits)) =>
        (pc = "raised" /\ error = "ValueError")

\* C5: the id given to a new customer is numerically greater than every id of
\* the known customers and is six characters wide.
C5_FreshSixDigitId ==
    (pc \in {"query_from", "query_to", "persist"}) =>
        /\ \A k \in KnownIds : ParseInt(cust[1].cust_id) > ParseInt(k)
        /\ Len(cust[1].cust_id) = ID_WIDTH

\* C6: when load_customers returns, the depot id is in the visits and in the
\* customer dictionary, it is the first of the visits, and the ids after it
\* stand in ascending order (the order of the id strings, which sorted() uses).
C6_DepotFirstRestSorted ==
    ReturnedData =>
        /\ DEPOT_CUST_ID \in Range(visits)
        /\ DEPOT_CUST_ID \in DOMAIN cust_dict
        /\ visits[1] = DEPOT_CUST_ID
        /\ \A i \in 2..(Len(visits) - 1) : StrLess(visits[i], visits[i + 1])

\* the depot was not among the rows, and two other customers were
C6_Witness ==
    /\ ReturnedData
    /\ Len(visits) = 3
    /\ rows_read = 2

\* C7: no step of load_customers removes or changes a pair the distances
\* already held, in the dictionary in memory or in the customers file; this
\* covers the merge of a new customer and the row of a known one.
C7_MergeKeepsPairs ==
    [][ /\ distances_dict' # distances_dict =>
              Preserved(distances_dict, distances_dict')
        /\ (file' # file /\ file.state = "written" /\ file'.state = "written") =>
              Preserved(dist_dict_from_json(file.distances),
                        dist_dict_from_json(file'.distances)) ]_vars

\* a new customer has been merged into a file that held two
C7_Witness ==
    /\ pc = "rows"
    /\ file.state = "written"
    /\ Len(file.customers) = 3
    /\ Len(known_customers) = 3
    /\ Cardinality(DOMAIN distances_dict) = 9
    /\ rows_read = 1

\* the pairs between a customer id and a set of ids, in both directions
ForwardPairs(c, K) == {<<c, k>> : k \in K}
BackwardPairs(c, K) == {<<k, c>> : k \in K}

\* C8 as stated: the distances found for a new customer C with known
\* customers K are exactly the pairs (C,k) and (k,C), k in K.
C8_OnlyForwardAndBackward ==
    (pc = "persist" /\ Len(known_customers) > 0) =>
        DOMAIN new_dists = ForwardPairs(cust[1].cust_id, KnownIds)
                           \cup BackwardPairs(cust[1].cust_id, KnownIds)

\* C8 amended: they are exactly the pairs (C,k) and (k,C), k in K, and the
\* pair (C,C); C is none of K, so no pair among K is produced, and none of
\* the pairs produced is in the distances already.
C8_ForwardBackwardSelf ==
    (pc = "persist" /\ Len(known_customers) > 0) =>
        /\ DOMAIN new_dists = ForwardPairs(cust[1].cust_id, KnownIds)
                              \cup BackwardPairs(cust[1].cust_id, KnownIds)
                              \cup {<<cust[1].cust_id, cust[1].cust_id>>}
        /\ cust[1].cust_id \notin KnownIds
        /\ DOMAIN new_dists \cap DOMAIN distances_dict = {}

\* both queries for a new customer with two known ones have answered
C8_Witness ==
    /\ pc = "persist"
    /\ Len(known_customers) = 2
    /\ queries = 2

\* C10: a crash inside a write of the customers file leaves the file with its
\* complete previous content or with the complete new content.
C10_AtomicReplace ==
    [][ pc' = "crashed" =>
          \/ file' = file
          \/ file' = add_to_known_customer_data(cust[1], new_dists,
                                                customers_filename, file) ]_vars

----------------------------------------------------------------------------
(* router.py: the routing model and its solutions *)

\* numbers of vehicles a run may ask for (RunParams.n_routes, 1 by default)
VehicleCounts == {1, 2}

\* values of the output name: None (no --write), a .json name, another name
OutNames == {"None", "solution.json", "solution.txt"}

\* RoutingIndexManager(n, v, 0): nodes are 0..n-1 and node 0 is the depot.
\* Indices 0..n-1 stand for the nodes (index 0 starts vehicle 0), the next
\* v-1 indices start the other vehicles, the last v indices end the vehicles.
Start(n, v, vehicle_id) == IF vehicle_id = 0 THEN 0 ELSE n + vehicle_id - 1
End(n, v, vehicle_id) == n + v - 1 + vehicle_id
IsEnd(n, v, index) == index >= n + v - 1
IndexToNode(n, v, index) == IF index < n THEN index ELSE 0

\* distance_callback of lines 101-106, over data['distance_matrix']
distance_callback(d, n, from_index, to_index) ==
    d.distance_matrix[<<IndexToNode(n, d.num_vehicles, from_index) + 1,
                        IndexToNode(n, d.num_vehicles, to_index) + 1>>]

\* the orders in which the nodes 1..n-1 can be served
Orders(n) == {o \in [1..(n - 1) -> 1..(n - 1)] : \A i, j \in 1..(n - 1) : o[i] = o[j] => i = j}

\* the ways to cut a list of n-1 nodes into v consecutive pieces
Cuts(n, v) == {c \in [0..v -> 0..(n - 1)] :
                  /\ c[0] = 0 /\ c[v] = n - 1
                  /\ \A i \in 0..(v - 1) : c[i] <= c[i + 1]}

\* the value of every NextVar when the vehicles serve the pieces of o cut by c
NextOf(n, v, o, c) ==
    [index \in 0..(n + v - 2) |->
        LET vehicle_id == IF index = 0 THEN 0 ELSE index - n + 1
            pos == CHOOSE i \in 1..(n - 1) : o[i] = index
            last(k) == \E w \in 1..v : c[w] = k
            vehicle_at(k) == CHOOSE w \in 0..(v - 1) : c[w] < k /\ k <= c[w + 1]
        IN  IF index = 0 \/ index >= n
            THEN IF c[vehicle_id] = c[vehicle_id + 1] THEN End(n, v, vehicle_id)
                 ELSE o[c[vehicle_id] + 1]
            ELSE IF last(pos) THEN End(n, v, vehicle_at(pos))
                 ELSE o[pos + 1]]

\* the assignments of a routing model without disjunctions: every node is on
\* the path of exactly one vehicle, from its start to its end
Assignments(n, v) == {NextOf(n, v, o, c) : o \in Orders(n), c \in Cuts(n, v)}

RECURSIVE PathDuration(_, _, _, _)
\* the sum of the transits along the path of next from index to an end
PathDuration(d, n, next, index) ==
    IF IsEnd(n, d.num_vehicles, index) THEN 0
    ELSE distance_callback(d, n, index, next[index])
         + PathDuration(d, n, next, next[index])

\* a variant of WithinDimension for a model without the dimension
WithinDimension_Absent(d, n, next, cap) == TRUE

\* lines 113-121: the 'duration' dimension, without slack, starting at zero,
\* of the given capacity for every vehicle
WithinDimension(d, n, next, cap) ==
    \A vehicle_id \in 0..(d.num_vehicles - 1) :
        PathDuration(d, n, next, Start(n, d.num_vehicles, vehicle_id)) <= cap

\* what routing.SolveWithParameters may return: an assignment that meets the
\* constraints of the model (the search may also end without one)
Solutions(d, n, cap) ==
    {next \in Assignments(n, d.num_vehicles) : WithinDimension(d, n, next, cap)}

RECURSIVE RouteFrom(_, _, _, _, _, _)
\* the loop of lines 47-62 from index on: the customers met, the end included
RouteFrom(n, v, next, visit_ids, customers, index) ==
    IF IsEnd(n, v, index)
    THEN <<customers[visit_ids[IndexToNode(n, v, index) + 1]]>>
    ELSE <<customers[visit_ids[IndexToNode(n, v, index) + 1]]>>
         \o RouteFrom(n, v, next, visit_ids, customers, next[index])

\* a variant of get_routes that leaves out the stop at which a route ends
get_routes_open(d, next, visit_ids, customers) ==
    LET n == Len(visit_ids)
        v == d.num_vehicles
        whole(k) == RouteFrom(n, v, next, visit_ids, customers, Start(n, v, k - 1))
    IN  [k \in 1..v |->
            [route |-> SubSeq(whole(k), 1, Len(whole(k)) - 1),
             duration |-> PathDuration(d, n, next, Start(n, v, k - 1))]]

\* router.get_routes: for every vehicle the route and its duration
get_routes(d, next, visit_ids, customers) ==
    LET n == Len(visit_ids)
        v == d.num_vehicles
    IN  [k \in 1..v |->
            [route |-> RouteFrom(n, v, next, visit_ids, customers, Start(n, v, k - 1)),
             duration |-> PathDuration(d, n, next, Start(n, v, k - 1))]]

\* router.write_text_solution: the error it raises for an output name, if any
write_text_solution(outname) ==
    IF outname = "None" THEN "AttributeError"
    ELSE IF outname = "solution.json" THEN "NameError"
    ELSE ""

----------------------------------------------------------------------------
(* runner.fetch_data: the checks of the distances *)

\* the ordered pairs of ids to visit that the distances lack
MissingPairs(visit_ids, distances) ==
    {<<visit_ids[p[1]], visit_ids[p[2]]>> : p \in MissingAt(visit_ids, distances)}

\* utils._check_for_missing_distances
check_for_missing_distances(visit_ids, distances) ==
    MissingPairs(visit_ids, distances) # {}

\* utils._find_missing_distances: the error that names a missing pair
find_missing_distances(visit_ids, distances) ==
    LET p == FirstMissingAt(visit_ids, distances)
    IN  [kind |-> "DataConsistencyError", key |-> <<visit_ids[p[1]], visit_ids[p[2]]>>]

\* utils.get_distances: the matrices a fresh fetch may bring for the customers
get_distances_fetched(customers) == CompleteDicts(DOMAIN customers)

----------------------------------------------------------------------------
(* A run of the router on given data *)

\* the ids 000000 .. of n stops, the depot first
VisitIds(n) == [i \in 1..n |-> FormatId(i - 1)]

\* a dictionary without one of its pairs
Without(d, p) == [k \in DOMAIN d \ {p} |-> d[k]]

\* the dictionary over the ids in which every journey takes as long
UniformDict(ids, t) == [p \in ids \X ids |-> IF p[1] = p[2] THEN 0 ELSE t]

\* distance dictionaries for the ids: the complete ones, and some that lack a pair
InputDicts(ids) ==
    CompleteDicts(ids)
    \cup {Without(UniformDict(ids, t), p) : t \in Durations, p \in ids \X ids}

LoadIdle ==
    /\ pc = "idle"
    /\ customers_filename = ""
    /\ file = NoFile
    /\ known_customers = <<>>
    /\ next_cust_id = 0
    /\ rows_read = 0
    /\ cust = <<>>
    /\ new_dists = EmptyDict
    /\ queries = 0
    /\ error = ""

InitRoute ==
    /\ LoadIdle
    /\ \E n \in 1..(MaxStops + 1) :
          /\ visits = VisitIds(n)
          /\ cust_dict = [id \in Range(VisitIds(n)) |->
                             Customer(id, "ann", "1 Elm St, Troy, NY 12180", 42, 73, TRUE)]
          /\ distances_dict \in InputDicts(Range(VisitIds(n)))
    /\ \/ rpc = "fetch_data" /\ get_distances \in BOOLEAN
       \/ rpc = "get_routing_solution" /\ get_distances = FALSE
    /\ data = <<>>
    /\ solution = <<>>
    /\ routes = <<>>
    /\ rerror = NoError
    /\ capacity = 0
    /\ engine_invoked = FALSE

\* runner.py lines 102-114, 135: the distances are complete, or are fetched anew
fetch_data ==
    /\ rpc = "fetch_data"
    /\ IF check_for_missing_distances(visits, distances_dict)
       THEN /\ get_distances
            /\ distances_dict' \in get_distances_fetched(cust_dict)
       ELSE UNCHANGED distances_dict
    /\ rpc' = "get_routing_solution"
    /\ UNCHANGED <<pc, customers_filename, file, known_customers, cust_dict, visits,
                   next_cust_id, rows_read, cust, new_dists, queries, error,
                   get_distances, data, solution, routes, rerror, capacity,
                   engine_invoked>>

\* runner.py lines 103-112: a pair is missing and nothing may be fetched
fetch_data_missing ==
    /\ rpc = "fetch_data"
    /\ check_for_missing_distances(visits, distances_dict)
    /\ ~get_distances
    /\ rerror' = find_missing_distances(visits, distances_dict)
    /\ rpc' = "raised"
    /\ UNCHANGED <<load_vars, get_distances, data, solution, routes, capacity,
                   engine_invoked>>

\* router.py lines 19-29, 88: create_model_data builds the matrix
create_model_data ==
    /\ rpc = "get_routing_solution"
    /\ LET m == get_distance_matrix(visits, distances_dict)
       IN  IF m.ok
           THEN /\ \E n_routes \in VehicleCounts :
                      data' = << [num_vehicles |-> n_routes, depot |-> 0,
                                  distance_matrix |-> m.matrix] >>
                /\ rpc' = "model"
                /\ UNCHANGED rerror
           ELSE /\ rerror' = [kind |-> "KeyError", key |-> m.key]
                /\ rpc' = "raised"
                /\ UNCHANGED data
    /\ UNCHANGED <<load_vars, get_distances, solution, routes, capacity,
                   engine_invoked>>

\* router.py lines 90-131: the model is built and solved
solve ==
    /\ rpc = "model"
    /\ capacity' = MAX_ROUTE_DURATION
    /\ engine_invoked' = TRUE
    /\ \/ solution' = <<>>
       \/ \E next \in Solutions(data[1], Len(visits), MAX_ROUTE_DURATION) :
             solution' = <<next>>
    /\ rpc' = "solved"
    /\ UNCHANGED <<load_vars, get_distances, data, routes, rerror>>

\* router.py lines 134-142: a solution was found; it is listed and written
report_solution ==
    /\ rpc = "solved"
    /\ solution # <<>>
    /\ routes' = get_routes(data[1], solution[1], visits, cust_dict)
    /\ \E outname \in OutNames :
          IF write_text_solution(outname) = ""
          THEN rpc' = "done" /\ UNCHANGED rerror
          ELSE rpc' = "raised"
               /\ rerror' = [kind |-> write_text_solution(outname), key |-> <<>>]
    /\ UNCHANGED <<load_vars, get_distances, data, solution, capacity, engine_invoked>>

\* router.py lines 144-145: no solution; a warning is logged
report_no_solution ==
    /\ rpc = "solved"
    /\ solution = <<>>
    /\ rpc' = "done"
    /\ UNCHANGED <<load_vars, get_distances, data, solution, routes, rerror,
                   capacity, engine_invoked>>

NextRoute ==
    \/ fetch_data
    \/ fetch_data_missing
    \/ create_model_data
    \/ solve
    \/ report_solution
    \/ report_no_solution

SpecRoute == InitRoute /\ [][NextRoute]_vars

----------------------------------------------------------------------------
(* Properties of the router and of the runner's checks *)

\* how often an id stands in a list of customers
RECURSIVE Occurrences(_, _)
Occurrences(id, route) ==
    IF Len(route) = 0 THEN 0
    ELSE (IF route[1].cust_id = id THEN 1 ELSE 0) + Occurrences(id, Tail(route))

RECURSIVE OccurrencesInAll(_, _)
OccurrencesInAll(id, rs) ==
    IF Len(rs) = 0 THEN 0
    ELSE Occurrences(id, rs[1].route) + OccurrencesInAll(id, Tail(rs))

\* C1: in the routes get_routes lists, every id to visit other than the
\* depot stands exactly once, and every route starts and ends at the depot.
C1_EveryStopOnce ==
    routes # <<>> =>
        /\ \A id \in Range(visits) \ {visits[1]} : OccurrencesInAll(id, routes) = 1
        /\ \A k \in 1..Len(routes) :
              /\ Len(routes[k].route) >= 2
              /\ routes[k].route[1].cust_id = visits[1]
              /\ routes[k].route[Len(routes[k].route)].cust_id = visits[1]

\* two vehicles share two stops, one each
C1_Witness ==
    /\ Len(routes) = 2
    /\ Len(visits) = 3
    /\ Len(routes[1].route) = 3
    /\ Len(routes[2].route) = 3

\* the search ended and no assignment keeps every route within the ceiling
NoneWithin(cap) ==
    /\ rpc \in {"solved", "done", "raised"}
    /\ engine_invoked
    /\ Solutions(data[1], Len(visits), cap) = {}

\* get_routing_solution logged that there is no solution and raised nothing
NoSolutionReported ==
    /\ solution = <<>>
    /\ routes = <<>>
    /\ rerror = NoError
    /\ rpc \in {"solved", "done"}

\* C2 as stated: the ceiling of the model is 28800; every listed route lasts
\* at most that, and when no assignment respects it the run ends without a
\* solution and without an error.
C2_Ceiling28800 ==
    engine_invoked =>
        /\ capacity = 28800
        /\ \A k \in 1..Len(routes) : routes[k].duration <= capacity
        /\ NoneWithin(capacity) => NoSolutionReported

\* C2 amended: the same with the ceiling the code sets, 21600.
C2_Ceiling21600 ==
    engine_invoked =>
        /\ capacity = MAX_ROUTE_DURATION
        /\ \A k \in 1..Len(routes) : routes[k].duration <= capacity
        /\ NoneWithin(capacity) => NoSolutionReported

\* one vehicle served two stops in exactly the ceiling
C2_Witness ==
    /\ Len(routes) = 1
    /\ Len(routes[1].route) = 4
    /\ routes[1].duration = MAX_ROUTE_DURATION

\* a run whose stops no assignment serves within the ceiling ended without a
\* solution and without an error
C2_InfeasibleReached ==
    /\ rpc = "done"
    /\ NoneWithin(MAX_ROUTE_DURATION)
    /\ NoSolutionReported

----------------------------------------------------------------------------
(* Properties of the writes of the customers file *)

\* the file holds neither the record of the customer nor a pair with its id
StopAbsent(c, f) ==
    /\ \A i \in 1..Len(f.customers) : f.customers[i].cust_id # c.cust_id
    /\ \A k \in DOMAIN dist_dict_from_json(f.distances) :
          k[1] # c.cust_id /\ k[2] # c.cust_id

\* a step that changes the customers file
WritesFile == file' # file

\* the step in which the checks of lines 238-255 reject the data
ValidationFails ==
    /\ pc = "rows"
    /\ rows_read' = rows_read
    /\ pc' \in {"raised", "returned"}
    /\ error' # ""

\* the step in which a provider query for the new customer fails
QueryFails == pc \in {"query_from", "query_to"} /\ pc' = "raised"

\* the file is written only for a geocoded new customer whose queries have
\* all answered, and a failing query leaves the file as it was, without the
\* customer (the part of C11 about geocoding and the provider)
C11_NoWriteBeforeQueries ==
    [][ /\ WritesFile =>
              /\ pc = "persist"
              /\ cust # <<>>
              /\ get_known_customer(cust[1].name, cust[1].address, known_customers) = 0
              /\ Len(known_customers) > 0 => queries = 2
        /\ QueryFails => (file' = file /\ StopAbsent(cust[1], file')) ]_vars

\* C11: the customers file is written for a new customer only after its
\* geocoding and its provider queries succeeded and the new data passed the
\* checks; when a query or the checks fail, the file holds neither the record
\* nor a pair of the new customer of this run, and is otherwise unchanged.
C11_PersistAfterValidation ==
    [][ /\ WritesFile =>
              /\ pc = "persist"
              /\ cust # <<>>
              /\ Len(known_customers) > 0 => queries = 2
        /\ QueryFails => (file' = file /\ StopAbsent(cust[1], file'))
        /\ (ValidationFails /\ cust # <<>> /\ customers_filename # "") =>
              (file' = file /\ StopAbsent(cust[1], file')) ]_vars

\* a query for a new customer failed while the file held known customers
C11_QueryFailedReached ==
    /\ pc = "raised"
    /\ error = "ApiError"
    /\ file.state = "written"
    /\ Len(file.customers) >= 1
    /\ StopAbsent(cust[1], file)

----------------------------------------------------------------------------
(* Properties of the provider queries *)

\* the calls of osr_client.distance_matrix made for the query that raised:
\* the forward query has answered exactly when new_dists is filled
FailedQueryAttempts == IF new_dists = EmptyDict THEN queries ELSE queries - 1

\* C12: a provider error reaches the caller of load_customers only after the
\* failing query was tried 3 times; one failure alone does not end the run.
C12_ThreeAttempts ==
    (pc = "raised" /\ error = "ApiError") => FailedQueryAttempts = 3

\* the backward query raised at its first call, after the forward one answered
C12_FirstFailureSurfaced ==
    /\ pc = "raised"
    /\ error = "ApiError"
    /\ new_dists # EmptyDict
    /\ queries = 2
    /\ FailedQueryAttempts = 1

\* C15: a new customer is merged with exactly two provider queries when
\* there are known customers, however many: first the one with the new
\* customer as the only source, then the one with it as the only destination.
\* With no known customer no query is made and the distances found are the
\* arc from the new customer to itself alone, of duration 0.
C15_TwoQueries ==
    [][ /\ queries' # queries =>
              \/ queries' = 0
              \/ /\ queries' = queries + 1
                 /\ Len(known_customers) > 0
                 /\ \/ pc = "query_from" /\ queries = 0
                    \/ pc = "query_to" /\ queries = 1
        /\ (pc' = "persist" /\ pc # "persist") =>
              IF Len(known_customers') = 0
              THEN /\ queries' = 0
                   /\ DOMAIN new_dists' = {<<cust'[1].cust_id, cust'[1].cust_id>>}
                   /\ new_dists'[<<cust'[1].cust_id, cust'[1].cust_id>>] = 0
              ELSE /\ queries' = 2
                   /\ pc = "query_to" ]_vars

\* in a run without a customers file the first customer was merged without
\* a query, leaving its own arc alone, and the second with two queries
C15_Witness ==
    /\ pc = "persist"
    /\ customers_filename = ""
    /\ Len(known_customers) = 1
    /\ DOMAIN distances_dict = {<<known_customers[1].cust_id, known_customers[1].cust_id>>}
    /\ queries = 2
    /\ rows_read = 2

----------------------------------------------------------------------------
(* Properties of the rows of known customers *)

\* the step that handles a row without meeting a new customer
KnownRowStep == pc = "rows" /\ pc' = "rows" /\ rows_read' # rows_read

\* the step that handles a row by giving an id to a new customer
NewRowStep == pc = "rows" /\ pc' \in {"query_from", "persist"}

\* the known customers with the name and address of a customer
SameNameAndAddress(c, customers) ==
    {i \in 1..Len(customers) :
        customers[i].name = c.name /\ customers[i].address = c.address}

\* C16: a row with the name and the geocoded address of a known customer,
\* loaded from the file or met earlier in the run, is never handled as a new
\* customer: no provider query, no new id, the distances in memory and the
\* customers file unchanged; among the known customers only the visit flag
\* of the one matched changes.
C16_KnownNotRecomputed ==
    [][ /\ KnownRowStep =>
              /\ queries' = 0
              /\ next_cust_id' = next_cust_id
              /\ distances_dict' = distances_dict
              /\ file' = file
              /\ \E i \in 1..Len(known_customers) :
                    /\ known_customers' = [known_customers EXCEPT ![i].visit = TRUE]
                    /\ visits' = Append(visits, known_customers[i].cust_id)
        /\ NewRowStep => SameNameAndAddress(cust'[1], known_customers) = {} ]_vars

\* in a run without a customers file, the second row named the customer the
\* first row had discovered
C16_Witness ==
    /\ pc = "rows"
    /\ customers_filename = ""
    /\ rows_read = 2
    /\ Len(known_customers) = 1
    /\ visits = <<known_customers[1].cust_id, known_customers[1].cust_id>>
    /\ queries = 0

----------------------------------------------------------------------------
(* The customers file and the data in memory *)

\* the ids of a list of customers or of customer records, in order
IdsOf(customers) == [i \in 1..Len(customers) |-> customers[i].cust_id]

\* load_customers has handled at least one row and is between rows or over
AfterARow == rows_read > 0 /\ pc \in {"rows", "returned", "raised"}

\* C17: in a run with a customers file, after every row handled the file
\* lists the ids of known_customers, in the same order, and its distances
\* decode to exactly distances_dict; as long as the file does not exist,
\* both are empty.
C17_FileAgreesWithMemory ==
    (customers_filename # "" /\ AfterARow) =>
        IF file_exists(file)
        THEN /\ IdsOf(file.customers) = IdsOf(known_customers)
             /\ ~dist_dict_from_json_raises(file.distances)
             /\ dist_dict_from_json(file.distances) = distances_dict
        ELSE known_customers = <<>> /\ distances_dict = EmptyDict

\* two new customers were added to a customers file that held one
C17_Witness ==
    /\ pc = "rows"
    /\ rows_read = 2
    /\ file.state = "written"
    /\ Len(file.customers) = 3
    /\ Cardinality(DOMAIN file.distances) = 9
    /\ visits = <<known_customers[2].cust_id, known_customers[3].cust_id>>

----------------------------------------------------------------------------
(* The distances written by one run and read by the next *)

\* ids the keys of a distances dictionary may hold
StoreIds == {FormatId(0), FormatId(1), FormatId(1000000)}

SubsetsUpTo(S, n) == {T \in SUBSET S : Cardinality(T) <= n}

\* the dictionaries of at most MaxPairs ordered pairs of ids
StoreDicts ==
    UNION {[T -> Durations \cup {0}] : T \in SubsetsUpTo(StoreIds \X StoreIds, MaxPairs)}

\* texts a hand-edited customers file may have as keys of its distances: two
\* keys as dist_dict_to_json writes them, a pair without the space, a pair
\* with a comma at the end, a tuple of one and of three ids, a bare id string,
\* a pair of integers, and four texts that are no Python literal
KeyTexts ==
    LET a == FormatId(0)
        b == FormatId(1)
    IN  { TupleStr(<<a, b>>),
          TupleStr(<<b, a>>),
          <<"(">> \o Repr(a) \o <<",">> \o Repr(b) \o <<")">>,
          <<"(">> \o Repr(b) \o <<",", " ">> \o Repr(b) \o <<",", ")">>,
          <<"(">> \o Repr(a) \o <<",", ")">>,
          <<"(">> \o Repr(a) \o <<",", " ">> \o Repr(b) \o <<",", " ">> \o Repr(a) \o <<")">>,
          Repr(a),
          <<"(">> \o Decimal(1) \o <<",", " ">> \o Decimal(2) \o <<")">>,
          a \o <<"-">> \o b,
          b \o <<",">> \o a,
          <<"(">> \o Repr(a) \o <<",", " ">> \o Repr(b),
          Repr(a) \o <<"-", ">">> \o Repr(b) }

\* customers files whose distances were edited by hand: at most MaxPairs
\* keys, all with the same duration
EditedFiles ==
    {[state |-> "written", customers |-> <<>>, distances |-> [s \in T |-> t]] :
        T \in SubsetsUpTo(KeyTexts, MaxPairs) \ {{}}, t \in Durations}

\* a run is about to write its first new customer with some distances into
\* a new customers file, or a run starts on a hand-edited customers file
InitStore ==
    /\ customers_filename = "customers.json"
    /\ \/ /\ pc = "persist"
          /\ file = NoFile
          /\ cust = <<Customer(FormatId(0), "ann", "1 Elm St, Troy, NY 12180", 42, 73, TRUE)>>
          /\ new_dists \in StoreDicts
       \/ /\ pc = "start"
          /\ file \in EditedFiles
          /\ cust = <<>>
          /\ new_dists = EmptyDict
    /\ known_customers = <<>>
    /\ distances_dict = EmptyDict
    /\ cust_dict = EmptyDict
    /\ visits = <<>>
    /\ next_cust_id = 0
    /\ rows_read = 0
    /\ queries = 0
    /\ error = ""
    /\ RouteIdle

\* line 223 (add_to_known_customer_data, lines 262-296) and the end of the
\* run: the distances are written, and load_customers is called again later
store_and_restart ==
    /\ pc = "persist"
    /\ file' = add_to_known_customer_data(cust[1], new_dists, customers_filename, file)
    /\ pc' = "start"
    /\ UNCHANGED <<customers_filename, known_customers, distances_dict, cust_dict,
                   visits, next_cust_id, rows_read, cust, new_dists, queries,
                   error, route_vars>>

NextStore ==
    \/ store_and_restart
    \/ load_customers_begin

SpecStore == InitStore /\ [][NextStore]_vars

\* the run started on a file written by the run before it
LoadedWhatWasWritten == pc = "rows" /\ cust # <<>>

\* C13: writing a distances dictionary and reading it back gives the same
\* dictionary: the same keys, with the two ids of each key in the same order,
\* and the same durations.
C13_RoundTrip ==
    /\ dist_dict_from_json(dist_dict_to_json(new_dists)) = new_dists
    /\ LoadedWhatWasWritten =>
          /\ DOMAIN distances_dict = DOMAIN new_dists
          /\ \A k \in DOMAIN new_dists : distances_dict[k] = new_dists[k]

\* two pairs between a six-character and a seven-character id, in both
\* orders and with different durations, were written and read back
C13_Witness ==
    /\ LoadedWhatWasWritten
    /\ \E k \in DOMAIN distances_dict :
          /\ Len(k[1]) # Len(k[2])
          /\ <<k[2], k[1]>> \in DOMAIN distances_dict
          /\ distances_dict[k] # distances_dict[<<k[2], k[1]>>]

\* whether a key of the file is the text of a tuple of exactly two strings
IsPairEncoding(s) ==
    /\ literal_eval(s).ok
    /\ literal_eval(s).kind = "tuple"
    /\ literal_eval(s).strs
    /\ Len(literal_eval(s).value) = 2

\* C14: when the distances of the customers file have a key that is not the
\* text of an ordered pair of ids, reading the file raises; a run that has
\* read the file holds no key from such a text.
C14_MalformedRejected ==
    (pc = "rows" /\ file_exists(file)) =>
        \A s \in DOMAIN file.distances : IsPairEncoding(s)

\* a key that is no Python literal made the reading of the file raise
C14_NonLiteralRejected ==
    /\ pc = "raised"
    /\ error = "SyntaxError"
    /\ \E s \in DOMAIN file.distances : ~literal_eval(s).ok

\* a file with a key of one id was read, and the key is in the distances
C14_TupleOfOneAccepted ==
    /\ pc = "rows"
    /\ \E s \in DOMAIN file.distances : Len(literal_eval(s).value) = 1
    /\ \E k \in DOMAIN distances_dict : Len(k) = 1

====
